---- MODULE Spec2Model ----
(***************************************************************************)
(* Model of the Open-Meteo client (src/main.py, src/src/open_meteo_client.py).*)
(*                                                                         *)
(* One inbound request is served at a time by a handler that runs          *)
(* build params -> GET -> parse -> (select nearest | filter by hour).      *)
(* A datetime is the number of minutes since 2023-01-01T00:00; a Python    *)
(* dict is the sequence of its <<key, value>> items in insertion order; an *)
(* Optional value is the empty set (None) or a singleton.                  *)
(***************************************************************************)
EXTENDS Integers, Sequences, FiniteSets, TLC

\* Longest value-array of the upstream 'hourly' object.
MaxLen == 2

VARIABLES
    pc,                 \* position of the handler
    op,                 \* "none" | "temperature" | "range"
    search_date_time,   \* requested instant (single temperature)
    filter_by_hour,     \* {} (None) or {h}
    request_params,     \* query parameters of the outbound GET
    upstream,           \* the HTTP response requests.get returned
    response,           \* the decoded JSON body
    parsed_response,    \* the TemperatureRangeResponse being built
    result,             \* what the handler returned or raised
    calls               \* the steps the current invocation has executed

vars == <<pc, op, search_date_time, filter_by_hour, request_params, upstream,
          response, parsed_response, result, calls>>

-----------------------------------------------------------------------------
(* Inputs *)

Str(d, h, m, s) == [type |-> "str", day |-> d, hour |-> h, minute |-> m, seconds |-> s]

\* Elements of the first value-array of 'hourly':
\*   "2023-01-01T00:00", "2023-01-01T00:00:00", "2023-01-01T01:00",
\*   "2023-01-01T12:00", "2023-01-02T12:00", "2023-01-01T00:60" (not ISO-8601)
\*   and a JSON number (not a string).
TimeElements ==
    { Str(0, 0, 0, FALSE), Str(0, 0, 0, TRUE), Str(0, 1, 0, FALSE),
      Str(0, 12, 0, FALSE), Str(1, 12, 0, FALSE), Str(0, 0, 60, FALSE),
      [type |-> "float", day |-> 0, hour |-> 0, minute |-> 0, seconds |-> FALSE] }

Temperatures == {5, 6}

ArraysOf(S) == UNION { [1..n -> S] : n \in 0..MaxLen }

\* The value-arrays of 'hourly', in the order the provider emits them.
HourlyValues ==
    {<<>>}
    \cup { <<t>> : t \in ArraysOf(TimeElements) }
    \cup { <<t, v>> : t \in ArraysOf(TimeElements), v \in ArraysOf(Temperatures) }
    \cup { <<t, v, x>> : t \in {<<>>, <<Str(0, 0, 0, FALSE)>>}, v \in {<<>>, <<5>>},
                         x \in {<<>>, <<1>>} }

\* A decoded JSON body: the top-level keys it has and their values.
Body(ks, h) ==
    [keys |-> ks,
     latitude |-> IF "latitude" \in ks THEN 52 ELSE 0,
     longitude |-> IF "longitude" \in ks THEN 13 ELSE 0,
     hourly |-> h]

NoBody == Body({}, <<>>)

Bodies ==
    { Body(ks \cup {"hourly"}, h) : ks \in {{}, {"latitude", "longitude"}}, h \in HourlyValues }
    \cup { NoBody, Body({"latitude"}, <<>>), Body({"latitude", "longitude"}, <<>>) }

\* What the upstream may answer: status, body text, and the JSON the text decodes
\* to ({} when the text is not JSON).
UpstreamResponses ==
    [status_code : {200}, text : {"json"}, json : { {b} : b \in Bodies }]
    \cup [status_code : {200, 201, 404, 500}, text : {"reason", ""}, json : {{}, {NoBody}}]

SearchDateTimes == {0, 30, 60, 725, 2160}
FilterByHours == {{}} \cup { {h} : h \in 0..24 }

NoResponse == [status_code |-> 0, text |-> "", json |-> {}]
NoParsed == [latitude |-> 0, longitude |-> 0, temperatures |-> <<>>]
NoResult == [kind |-> "none"]

-----------------------------------------------------------------------------
(* Python built-ins *)

abs(x) == IF x < 0 THEN -x ELSE x

Min(S) == CHOOSE x \in S : \A y \in S : x <= y

\* zip(*arrays): tuples of the i-th elements, up to the shortest array.
zip(arrays) ==
    IF arrays = <<>> THEN <<>>
    ELSE LET m == Min({ Len(arrays[j]) : j \in 1..Len(arrays) })
         IN  [i \in 1..m |-> [j \in 1..Len(arrays) |-> arrays[j][i]]]

dict_setdefault(d, k, v) ==
    IF \E i \in 1..Len(d) : d[i][1] = k THEN d ELSE Append(d, <<k, v>>)

\* d[k] = v on an insertion-ordered dict.
dict_setitem(d, k, v) ==
    IF \E i \in 1..Len(d) : d[i][1] = k
    THEN [i \in 1..Len(d) |-> IF d[i][1] = k THEN <<k, v>> ELSE d[i]]
    ELSE Append(d, <<k, v>>)

dict_keys(d) == [i \in 1..Len(d) |-> d[i][1]]

dict_getitem(d, k) == d[CHOOSE i \in 1..Len(d) : d[i][1] = k][2]

\* del d[k]
dict_delitem(d, k) == SelectSeq(d, LAMBDA item : item[1] # k)

\* datetime.fromisoformat: TypeError for a non-string, ValueError for a string
\* that is no ISO-8601 date-time, else the datetime.
fromisoformat(e) ==
    IF e.type # "str" THEN [raised |-> "TypeError", value |-> 0]
    ELSE IF e.hour \notin 0..23 \/ e.minute \notin 0..59
         THEN [raised |-> "ValueError", value |-> 0]
         ELSE [raised |-> "none", value |-> (e.day * 24 + e.hour) * 60 + e.minute]

\* datetime.hour
hour(dt) == (dt \div 60) % 24

\* datetime.date()
date(dt) == dt \div (24 * 60)

-----------------------------------------------------------------------------
(* OpenMeteoClient *)

HTTPException(status_code, detail) ==
    [kind |-> "HTTPException", status_code |-> status_code, detail |-> detail]

\* response.get(key, default)
body_get(body, key, default) == IF key \in body.keys THEN body[key] ELSE default

__build_request_params(latitude, longitude, start_date, end_date) ==
    [hourly |-> "temperature_2m",
     latitude |-> <<"str", latitude>>,
     longitude |-> <<"str", longitude>>,
     start_date |-> <<"%Y-%m-%d", start_date>>,
     end_date |-> <<"%Y-%m-%d", IF end_date = {} THEN start_date ELSE CHOOSE d \in end_date : TRUE>>]

is_bad_status_non2xx(status_code) == status_code \notin 200..299

\* response.status_code != 200
is_bad_status(status_code) == status_code # 200

\* The outcome of __fetch_request for the answer r of the upstream.
__fetch_request(r) ==
    IF is_bad_status(r.status_code)
    THEN [raised |-> HTTPException(r.status_code, <<"Bad Open-Meteo response: ", r.text>>),
          value |-> NoBody]
    ELSE IF r.json = {}
         THEN [raised |-> [kind |-> "JSONDecodeError"], value |-> NoBody]
         ELSE [raised |-> NoResult, value |-> CHOOSE b \in r.json : TRUE]

\* The dict comprehension of _parse_temperature_dict, tuple by tuple.
RECURSIVE comprehension(_, _)
comprehension(tuples, d) ==
    IF tuples = <<>> THEN [raised |-> "none", value |-> d]
    ELSE LET tup == Head(tuples)
         IN  IF Len(tup) # 2 THEN [raised |-> "ValueError", value |-> <<>>]
             ELSE LET dt == fromisoformat(tup[1])
                  IN  IF dt.raised # "none" THEN [raised |-> dt.raised, value |-> <<>>]
                      ELSE comprehension(Tail(tuples), dict_setitem(d, dt.value, tup[2]))

_parse_temperature_dict(resp) ==
    LET r == comprehension(zip(body_get(resp, "hourly", <<>>)), <<>>)
    IN  IF r.raised \in {"ValueError", "TypeError"}
        THEN [raised |-> HTTPException(500,
                  <<"Open-Meteo returned an unexpected response-format. Response: ", resp>>),
              value |-> <<>>]
        ELSE [raised |-> NoResult, value |-> r.value]

__parse_response(resp) ==
    LET temperature_dict == _parse_temperature_dict(resp)
    IN  IF temperature_dict.raised # NoResult
        THEN [raised |-> temperature_dict.raised, value |-> NoParsed]
        ELSE [raised |-> NoResult,
              value |-> [latitude |-> body_get(resp, "latitude", 0),
                         longitude |-> body_get(resp, "longitude", 0),
                         temperatures |-> temperature_dict.value]]

sort_key_signed(x, search_date) == x - search_date

\* key=lambda x: abs(x - search_date)
sort_key(x, search_date) == abs(x - search_date)

insort_before_equal(s, x, search_date) ==
    LET k == Cardinality({ i \in 1..Len(s) : sort_key(s[i], search_date) < sort_key(x, search_date) })
    IN  SubSeq(s, 1, k) \o <<x>> \o SubSeq(s, k + 1, Len(s))

\* One step of the stable sort: x goes after every element whose key is not larger.
insort(s, x, search_date) ==
    LET k == Cardinality({ i \in 1..Len(s) : sort_key(s[i], search_date) <= sort_key(x, search_date) })
    IN  SubSeq(s, 1, k) \o <<x>> \o SubSeq(s, k + 1, Len(s))

\* sorted(dates, key=lambda x: abs(x - search_date))
RECURSIVE sorted(_, _)
sorted(dates, search_date) ==
    IF dates = <<>> THEN <<>>
    ELSE insort(sorted(SubSeq(dates, 1, Len(dates) - 1), search_date), dates[Len(dates)], search_date)

\* next(iter(sorted(...))): StopIteration on an empty iterable.
__find_closest_date(search_through_dates, search_date) ==
    LET s == sorted(search_through_dates, search_date)
    IN  IF s = <<>> THEN [raised |-> [kind |-> "StopIteration"], value |-> {}]
        ELSE [raised |-> NoResult, value |-> {Head(s)}]

falsy_none_only(filter_by_hour_) == filter_by_hour_ = {}

\* not filter_by_hour
falsy(filter_by_hour_) == filter_by_hour_ = {} \/ filter_by_hour_ = {0}

hour_differs_one_based(dt, h) == hour(dt) + 1 # h

\* dt.hour != filter_by_hour
hour_differs(dt, h) == hour(dt) # h

RECURSIVE delete_loop(_, _, _)
\* for dt in list(temperatures): if dt.hour != filter_by_hour: del temperatures[dt]
delete_loop(temperatures, keys, h) ==
    IF keys = <<>> THEN temperatures
    ELSE delete_loop(IF hour_differs(Head(keys), h)
                     THEN dict_delitem(temperatures, Head(keys))
                     ELSE temperatures,
                     Tail(keys), h)

__filter_temperatures(temperatures, filter_by_hour_) ==
    IF falsy(filter_by_hour_) THEN temperatures
    ELSE delete_loop(temperatures, dict_keys(temperatures), CHOOSE h \in filter_by_hour_ : TRUE)

-----------------------------------------------------------------------------
(* The handlers, step by step *)

Init ==
    /\ pc = "idle"
    /\ op = "none"
    /\ search_date_time = 0
    /\ filter_by_hour = {}
    /\ request_params = __build_request_params(0, 0, 0, {})
    /\ upstream = NoResponse
    /\ response = NoBody
    /\ parsed_response = NoParsed
    /\ result = NoResult
    /\ calls = <<>>

\* GET /weather-archive/temperature
weather_archive_temperature_handler(latitude, longitude, date_and_time) ==
    /\ pc = "idle"
    /\ op' = "temperature"
    /\ search_date_time' = date_and_time
    /\ filter_by_hour' = {}
    /\ request_params' = __build_request_params(latitude, longitude, date(date_and_time), {})
    /\ calls' = <<"build">>
    /\ pc' = "fetch"
    /\ UNCHANGED <<upstream, response, parsed_response, result>>

\* GET /weather-archive/temperature-range
weather_archive_temperature_range_handler(latitude, longitude, from_date, to_date, filter_by_hour_) ==
    /\ pc = "idle"
    /\ op' = "range"
    /\ search_date_time' = 0
    /\ filter_by_hour' = filter_by_hour_
    /\ request_params' = __build_request_params(latitude, longitude, from_date, {to_date})
    /\ calls' = <<"build">>
    /\ pc' = "fetch"
    /\ UNCHANGED <<upstream, response, parsed_response, result>>

FetchRequestRetry ==
    /\ pc = "fetch"
    /\ \E r \in UpstreamResponses :
          LET fetched == __fetch_request(r)
              again == fetched.raised # NoResult /\ Len(calls) < 2
          IN  /\ upstream' = r
              /\ calls' = Append(calls, "get")
              /\ response' = fetched.value
              /\ result' = IF again THEN NoResult ELSE fetched.raised
              /\ pc' = IF again THEN "fetch"
                       ELSE IF fetched.raised # NoResult THEN "done" ELSE "parse"
    /\ UNCHANGED <<op, search_date_time, filter_by_hour, request_params, parsed_response>>

\* response = self.__fetch_request(request_params)
FetchRequest ==
    /\ pc = "fetch"
    /\ \E r \in UpstreamResponses :
          LET fetched == __fetch_request(r)
          IN  /\ upstream' = r
              /\ calls' = Append(calls, "get")
              /\ response' = fetched.value
              /\ result' = fetched.raised
              /\ pc' = IF fetched.raised # NoResult THEN "done" ELSE "parse"
    /\ UNCHANGED <<op, search_date_time, filter_by_hour, request_params, parsed_response>>

\* parsed_response = self.__parse_response(response)
ParseResponse ==
    /\ pc = "parse"
    /\ LET parsed == __parse_response(response)
       IN  /\ calls' = Append(calls, "parse")
           /\ parsed_response' = parsed.value
           /\ result' = parsed.raised
           /\ pc' = IF parsed.raised # NoResult THEN "done"
                    ELSE IF op = "temperature" THEN "select" ELSE "filter"
    /\ UNCHANGED <<op, search_date_time, filter_by_hour, request_params, upstream, response>>

\* fetch_temperature from the nearest-timestamp selection to its return
FetchTemperatureReturn ==
    /\ pc = "select"
    /\ LET closest == __find_closest_date(dict_keys(parsed_response.temperatures), search_date_time)
       IN  /\ calls' = Append(calls, "select")
           /\ result' =
                 IF closest.raised # NoResult THEN closest.raised
                 ELSE IF closest.value = {}
                      THEN HTTPException(404, <<"No temperature found for datetime ", search_date_time>>)
                      ELSE LET closest_temperature_datetime == CHOOSE d \in closest.value : TRUE
                           IN  [kind |-> "TemperatureResponse",
                                latitude |-> parsed_response.latitude,
                                longitude |-> parsed_response.longitude,
                                measure_datetime |-> closest_temperature_datetime,
                                temperature |-> dict_getitem(parsed_response.temperatures,
                                                             closest_temperature_datetime)]
    /\ pc' = "done"
    /\ UNCHANGED <<op, search_date_time, filter_by_hour, request_params, upstream, response,
                   parsed_response>>

\* fetch_temperature_range from the hour filter to its return
FetchTemperatureRangeReturn ==
    /\ pc = "filter"
    /\ LET filtered == __filter_temperatures(parsed_response.temperatures, filter_by_hour)
       IN  /\ calls' = Append(calls, "filter")
           /\ parsed_response' = [parsed_response EXCEPT !.temperatures = filtered]
           /\ result' = [kind |-> "TemperatureRangeResponse",
                         latitude |-> parsed_response.latitude,
                         longitude |-> parsed_response.longitude,
                         temperatures |-> filtered]
    /\ pc' = "done"
    /\ UNCHANGED <<op, search_date_time, filter_by_hour, request_params, upstream, response>>

\* The response (or the error) goes to the inbound caller; nothing is kept.
Respond ==
    /\ pc = "done"
    /\ pc' = "idle"
    /\ op' = "none"
    /\ search_date_time' = 0
    /\ filter_by_hour' = {}
    /\ request_params' = __build_request_params(0, 0, 0, {})
    /\ upstream' = NoResponse
    /\ response' = NoBody
    /\ parsed_response' = NoParsed
    /\ result' = NoResult
    /\ calls' = <<>>

Next ==
    \/ \E dt \in SearchDateTimes : weather_archive_temperature_handler(52, 13, dt)
    \/ \E h \in FilterByHours : weather_archive_temperature_range_handler(52, 13, 0, 1, h)
    \/ FetchRequest
    \/ ParseResponse
    \/ FetchTemperatureReturn
    \/ FetchTemperatureRangeReturn
    \/ Respond

Spec == Init /\ [][Next]_vars

-----------------------------------------------------------------------------
(* Properties *)

\* Positions of an invocation, read off the steps it has executed.
AfterGet == Len(calls) = 2
AfterParse == Len(calls) = 3
Returned(o) == pc = "done" /\ op = o /\ Len(calls) = 4

Distance(a, b) == IF a >= b THEN a - b ELSE b - a
HourOfDay(t) == (t % 1440) \div 60
ValidIso(e) == e.type = "str" /\ e.hour \in 0..23 /\ e.minute \in 0..59
Instant(e) == e.day * 1440 + e.hour * 60 + e.minute

IsHTTPError(r, code) == r.kind = "HTTPException" /\ r.status_code = code

\* The timestamps array and the temperatures array of a body, when 'hourly' holds
\* exactly these two.
TwoArrays(body) == "hourly" \in body.keys /\ Len(body.hourly) = 2
Times(body) == body.hourly[1]
Temps(body) == body.hourly[2]

Candidates == dict_keys(parsed_response.temperatures)
KeySet(d) == { d[i][1] : i \in 1..Len(d) }

\* C1: fetch_temperature on a successfully fetched body whose parsed series has no
\* timestamps ends with HTTP 404 "No temperature found", and with nothing else.
C1_EmptySeriesIsNotFound ==
    (Returned("temperature") /\ parsed_response.temperatures = <<>>)
        => IsHTTPError(result, 404)

\* C2: a body whose two 'hourly' arrays differ in length, or whose timestamps array
\* holds an element that is no ISO-8601 string, makes parsing fail with HTTP 500;
\* no mapping is produced from it.
C2_InvalidHourlyIsMalformed ==
    (AfterParse /\ TwoArrays(response)
       /\ (\/ Len(Times(response)) # Len(Temps(response))
           \/ \E i \in 1..Len(Times(response)) : ~ValidIso(Times(response)[i])))
        => (IsHTTPError(result, 500) /\ pc = "done")

\* C3 as stated: the upstream fetch raises the upstream error exactly for the
\* non-2xx statuses, carrying the status and the body text; for a 2xx status
\* (with a JSON body) it returns the decoded body and raises nothing.
C3_UpstreamErrorIffNon2xx ==
    AfterGet =>
        IF upstream.status_code \notin 200..299
        THEN /\ IsHTTPError(result, upstream.status_code)
             /\ result.detail[2] = upstream.text
        ELSE upstream.json # {} => (result = NoResult /\ response \in upstream.json)

\* C3 amended: the upstream fetch raises the upstream error exactly for the
\* statuses other than 200, carrying the status and the body text; for status 200
\* it raises no upstream error, and returns the decoded body when the text is JSON.
C3_UpstreamErrorIffNot200 ==
    AfterGet =>
        IF upstream.status_code # 200
        THEN /\ IsHTTPError(result, upstream.status_code)
             /\ result.detail[2] = upstream.text
             /\ pc = "done"
        ELSE /\ result.kind # "HTTPException"
             /\ upstream.json # {} => (result = NoResult /\ response \in upstream.json /\ pc = "parse")

C3_Witness ==
    AfterGet /\ upstream.status_code = 201 /\ IsHTTPError(result, 201)
        /\ result.detail[2] = "reason"

C5_FilterKeepsExactlyHour ==
    \A h \in 1..24 :
        (Returned("range") /\ filter_by_hour = {h}) =>
            /\ result.kind = "TemperatureRangeResponse"
            /\ result.temperatures =
                 SelectSeq(_parse_temperature_dict(response).value,
                           LAMBDA item : HourOfDay(item[1]) = h)
            /\ h = 24 => result.temperatures = <<>>

C5_Witness ==
    /\ Returned("range")
    /\ filter_by_hour = {12}
    /\ _parse_temperature_dict(response).value = << <<0, 5>>, <<720, 6>> >>
    /\ result.temperatures = << <<720, 6>> >>

\* C6: with filter_by_hour absent or 0, fetch_temperature_range returns the parsed
\* series unchanged, entries at hours other than 0 included.
C6_NoFilterWhenAbsentOrZero ==
    (Returned("range") /\ (filter_by_hour = {} \/ filter_by_hour = {0})) =>
        /\ result.kind = "TemperatureRangeResponse"
        /\ result.temperatures = _parse_temperature_dict(response).value

C6_Witness ==
    /\ Returned("range")
    /\ filter_by_hour = {0}
    /\ result.temperatures = << <<0, 5>>, <<720, 6>> >>

\* C7: when the upstream call succeeded, the body parsed and the requested instant
\* equals one of the upstream hourly timestamps, fetch_temperature returns that
\* instant, the temperature the parsed series maps it to, and the body's coordinates.
C7_ExactMatchReturned ==
    (/\ Returned("temperature")
     /\ "hourly" \in response.keys /\ Len(response.hourly) >= 1
     /\ \E i \in 1..Len(Times(response)) :
           ValidIso(Times(response)[i]) /\ Instant(Times(response)[i]) = search_date_time)
        =>
        /\ result.kind = "TemperatureResponse"
        /\ result.measure_datetime = search_date_time
        /\ \E i \in 1..Len(parsed_response.temperatures) :
              parsed_response.temperatures[i] = <<search_date_time, result.temperature>>
        /\ result.latitude = response.latitude
        /\ result.longitude = response.longitude

\* C8 as stated: for a timestamps array and a temperatures array of the same length
\* with valid ISO-8601 strings, the mapping sends the i-th parsed timestamp to the
\* i-th temperature for every index i, and has no other keys.
C8_EveryIndexIsPaired ==
    (/\ AfterParse /\ TwoArrays(response)
     /\ Len(Times(response)) = Len(Temps(response))
     /\ \A i \in 1..Len(Times(response)) : ValidIso(Times(response)[i]))
        =>
        /\ result = NoResult
        /\ KeySet(parsed_response.temperatures)
             = { Instant(Times(response)[i]) : i \in 1..Len(Times(response)) }
        /\ \A i \in 1..Len(Times(response)) :
              \E j \in 1..Len(parsed_response.temperatures) :
                 parsed_response.temperatures[j] = <<Instant(Times(response)[i]), Temps(response)[i]>>

\* C8 amended: the mapping's keys are the parsed timestamps, each key once, and a
\* parsed timestamp is sent to the temperature at the last index it occurs at; with
\* pairwise distinct parsed timestamps the mapping has exactly n entries, the i-th
\* timestamp paired with the i-th temperature.
C8_LastIndexIsPaired ==
    (/\ AfterParse /\ TwoArrays(response)
     /\ Len(Times(response)) = Len(Temps(response))
     /\ \A i \in 1..Len(Times(response)) : ValidIso(Times(response)[i]))
        =>
        LET n == Len(Times(response))
            at(i) == Instant(Times(response)[i])
            m == parsed_response.temperatures
        IN  /\ result = NoResult
            /\ KeySet(m) = { at(i) : i \in 1..n }
            /\ \A j, k \in 1..Len(m) : m[j][1] = m[k][1] => j = k
            /\ \A i \in 1..n :
                  (\A l \in (i + 1)..n : at(l) # at(i))
                     => \E j \in 1..Len(m) : m[j] = <<at(i), Temps(response)[i]>>
            /\ (\A i, l \in 1..n : at(i) = at(l) => i = l)
                  => (Len(m) = n /\ \A i \in 1..n : m[i] = <<at(i), Temps(response)[i]>>)

C8_Witness ==
    /\ AfterParse /\ TwoArrays(response)
    /\ Times(response) = <<Str(0, 0, 0, FALSE), Str(0, 0, 0, TRUE)>>
    /\ Temps(response) = <<5, 6>>
    /\ parsed_response.temperatures = << <<0, 6>> >>

\* C9: an invocation issues one upstream GET, before any parsing, selection or
\* filtering, and never a second one; when the upstream call fails the invocation
\* ends with that error, having parsed, selected and filtered nothing.
C9_SingleGetFirst ==
    /\ \A i, j \in 1..Len(calls) : (calls[i] = "get" /\ calls[j] = "get") => i = j
    /\ \A i \in 1..Len(calls) :
          calls[i] \in {"parse", "select", "filter"} => (i > 2 /\ calls[2] = "get")
    /\ pc \in {"parse", "select", "filter", "done"} => \E i \in 1..Len(calls) : calls[i] = "get"
    /\ (pc # "idle" /\ pc # "fetch" /\ (upstream.status_code # 200 \/ upstream.json = {}))
          => /\ pc = "done"
             /\ calls = <<"build", "get">>
             /\ result.kind \in {"HTTPException", "JSONDecodeError"}
             /\ parsed_response = NoParsed

C9_Witness ==
    /\ pc = "done"
    /\ upstream.status_code = 500
    /\ calls = <<"build", "get">>
    /\ IsHTTPError(result, 500)

\* C10: among the candidates at the minimal distance from the target the selector
\* returns the one that comes first in the candidates' iteration order; for
\* ascending candidates and a target halfway between two of them, the earlier one.
C10_TieGoesToFirstCandidate ==
    (Returned("temperature") /\ Candidates # <<>>) =>
        /\ result.kind = "TemperatureResponse"
        /\ LET first == CHOOSE i \in 1..Len(Candidates) :
                           /\ \A j \in 1..Len(Candidates) :
                                 Distance(Candidates[j], search_date_time)
                                    >= Distance(Candidates[i], search_date_time)
                           /\ \A j \in 1..(i - 1) :
                                 Distance(Candidates[j], search_date_time)
                                    > Distance(Candidates[i], search_date_time)
           IN  result.measure_datetime = Candidates[first]
        /\ (\A i, j \in 1..Len(Candidates) : i < j => Candidates[i] < Candidates[j])
              => \A k \in KeySet(parsed_response.temperatures) :
                    Distance(k, search_date_time) = Distance(result.measure_datetime, search_date_time)
                       => result.measure_datetime <= k

C10_Witness ==
    /\ Returned("temperature")
    /\ Candidates = <<0, 60>>
    /\ search_date_time = 30
    /\ result.kind = "TemperatureResponse"
    /\ result.measure_datetime = 0

====
